---- MODULE Spec2Model ----
(***************************************************************************)
(* perpetuity/simulation.py: the CD value object and the Simulator's       *)
(* year-by-year generator (_run), its bounded wrapper run(max_years) and   *)
(* direct iteration (__iter__).                                            *)
(*                                                                         *)
(* Reals are fixed-point.  An amount of money x is the integer            *)
(* floor(x * Unit); a rate or growth factor y is floor(y * RateUnit).  A   *)
(* product or quotient of an amount and a factor is rounded down after     *)
(* each operation, where the program's floats round to nearest.  Lists are *)
(* objects on a heap, so a record that holds a list holds a reference.     *)
(***************************************************************************)
EXTENDS Integers, Sequences, FiniteSets, TLC

\* ---- bounds of the model ----
Unit == 100          \* resolution of amounts: 1.0 is Unit
RateUnit == 1000     \* resolution of rates and factors: 1.0 is RateUnit
MaxMaturity == 2     \* largest desired_cd_maturity
MaxYears == 4        \* largest max_years given to run()
YearCap == 5         \* direct iteration does not start a Phase 1 year past this

\* ---- the code's literal 0.2 (line 80, line 96) is 1 / RungRateDivisor ----
RungRateDivisor == 5

\* ---- --max-years and run()'s default (line 132, line 169) ----
DefaultMaxYears == 100

Runs == {1, 2}

Balances == {0, 150 * Unit, 400 * Unit, 4000 * Unit}
Incomes == {0, 100 * Unit}
Maturities == 0..MaxMaturity
CdRates == {0, RateUnit \div 20}
Returns == {0, RateUnit \div 10}
Inflations == {0, RateUnit \div 10}

VARIABLES
    sim,        \* the Simulator object's attributes (set by __init__)
    heap,       \* the list objects: heap[ref] is the contents of list ref
    gen,        \* gen[r]: the frame of the generator self._run() of run r
    caller,     \* caller[r]: how run r is consumed (run(max_years) or iter)
    out,        \* out[r]: the records run r has yielded; cd_portfolio is a reference
    seen,       \* seen[r][i]: which yield produced record i and the list's contents then
    probe       \* a CD object made on its own and the future_value calls made on it

vars == <<sim, heap, gen, caller, out, seen, probe>>

\* ---- arithmetic ----
Min(a, b) == IF a <= b THEN a ELSE b

Max(S) == CHOOSE x \in S : \A y \in S : y <= x

Mul(a, b) == (a * b) \div RateUnit

Div(a, b) == (a * RateUnit) \div b

RECURSIVE Pow(_, _)
Pow(b, n) == IF n <= 0 THEN RateUnit ELSE Mul(Pow(b, n - 1), b)

FalsyNegative(x) == x < 0

\* `not balance`
Falsy(x) == x = 0

\* ---- CD ----
CD(year, maturity, rate, price) ==
    [year |-> year, maturity |-> maturity, rate |-> rate, price |-> price]

future_value_unclamped(cd, future_year) ==
    Mul(cd.price, Pow(RateUnit + cd.rate, future_year - cd.year))

\* line 40, future_year given
future_value(cd, future_year) ==
    Mul(cd.price, Pow(RateUnit + cd.rate, Min(cd.maturity, future_year - cd.year)))

\* lines 36-40; arg is <<>> for future_year=None and <<y>> for future_year=y
future_value_call(cd, arg) ==
    future_value(cd, IF arg = <<>> THEN cd.year + cd.maturity ELSE arg[1])

\* ---- list objects ----
NewListShared(h) == IF h = <<>> THEN <<<<>>>> ELSE h

\* `cd_portfolio = []`: a new list object; its reference is Len of the new heap
NewList(h) == Append(h, <<>>)

PopLast(lst) == Len(lst)

\* cd_portfolio.pop(0)
PopIndex(lst) == 1

Pop(lst) == [cd |-> lst[PopIndex(lst)],
             rest |-> SubSeq(lst, 1, PopIndex(lst) - 1)
                      \o SubSeq(lst, PopIndex(lst) + 1, Len(lst))]

ListPrepend(lst, cd) == <<cd>> \o lst

\* cd_portfolio.append(cd)
ListAppend(lst, cd) == Append(lst, cd)

\* ---- Simulator._run ----
RungRateFlat(cd_maturity, cd_rate) == cd_rate

\* 0.2 * cd_maturity * cd_rate
RungRate(cd_maturity, cd_rate) == (cd_maturity * cd_rate) \div RungRateDivisor

TargetPrice(desired_income, inflation_rate, years, rate, cd_maturity) ==
    Div(Mul(desired_income, Pow(RateUnit + inflation_rate, years)),
        Pow(RateUnit + rate, cd_maturity))

PriceUncapped(balance, target) == target

\* min(balance, target): what is actually paid
Price(balance, target) == Min(balance, target)

Record(year, income, ref, balance) ==
    [year |-> year, income |-> income, cd_portfolio |-> ref, balance |-> balance]

RECURSIVE LadderBreakFirst(_, _, _, _)
LadderBreakFirst(cd_maturity, balance, lst, s) ==
    IF cd_maturity > s.desired_cd_maturity \/ Falsy(balance)
    THEN [balance |-> balance, lst |-> lst]
    ELSE LET current_cd_rate == RungRate(cd_maturity, s.cd_rate)
             current_cd_price ==
                 Price(balance, TargetPrice(s.desired_income, s.inflation_rate,
                                            cd_maturity, current_cd_rate, cd_maturity))
         IN  LadderBreakFirst(cd_maturity + 1, balance - current_cd_price,
                              ListAppend(lst, CD(0, cd_maturity, current_cd_rate,
                                                 current_cd_price)), s)

\* the ladder loop, lines 79-90, from rung cd_maturity on
RECURSIVE Ladder(_, _, _, _)
Ladder(cd_maturity, balance, lst, s) ==
    IF cd_maturity > s.desired_cd_maturity
    THEN [balance |-> balance, lst |-> lst]
    ELSE LET current_cd_rate == RungRate(cd_maturity, s.cd_rate)
             current_cd_price ==
                 Price(balance, TargetPrice(s.desired_income, s.inflation_rate,
                                            cd_maturity, current_cd_rate, cd_maturity))
             b == balance - current_cd_price
             l == ListAppend(lst, CD(0, cd_maturity, current_cd_rate, current_cd_price))
         IN  IF Falsy(b) THEN [balance |-> b, lst |-> l]
             ELSE Ladder(cd_maturity + 1, b, l, s)

NoFrame == [pc |-> "none", year |-> 0, balance |-> 0, income |-> 0,
            cd_portfolio |-> 0, redeemed |-> <<>>]

\* g = self._run(): a generator object whose body has not started
NewFrame == [NoFrame EXCEPT !.pc = "start"]

Phase0KeepsIncome(f, lst, s) ==
    LET income == Min(s.initial_balance, s.desired_income)
        lad == Ladder(1, s.initial_balance, lst, s)
    IN  [f   |-> [f EXCEPT !.pc = "year0", !.year = 0, !.income = income,
                           !.balance = lad.balance],
         lst |-> lad.lst,
         yield |-> TRUE]

\* lines 66-93: up to the first yield
Phase0(f, lst, s) ==
    LET income == Min(s.initial_balance, s.desired_income)
        lad == Ladder(1, s.initial_balance - income, lst, s)
    IN  [f   |-> [f EXCEPT !.pc = "year0", !.year = 0, !.income = income,
                           !.balance = lad.balance],
         lst |-> lad.lst,
         yield |-> TRUE]

\* lines 101-119: one pass of the first loop, up to its yield
Phase1(f, lst, s) ==
    LET year == f.year + 1
        grown == Mul(f.balance, RateUnit + s.investment_return)
        cd_maturity == s.desired_cd_maturity
        current_cd_rate == RungRate(cd_maturity, s.cd_rate)
    IN  IF lst = <<>>
        THEN LET income == Min(grown, s.desired_income)
             IN  [f |-> [f EXCEPT !.pc = "phase1", !.year = year, !.income = income,
                                  !.balance = grown - income, !.redeemed = <<>>],
                  lst |-> lst,
                  yield |-> TRUE]
        ELSE LET p == Pop(lst)
                 income == future_value(p.cd, year)
                 current_cd_price ==
                     Price(grown, TargetPrice(s.desired_income, s.inflation_rate,
                                              year + cd_maturity, current_cd_rate,
                                              cd_maturity))
             IN  [f |-> [f EXCEPT !.pc = "phase1", !.year = year, !.income = income,
                                  !.balance = grown - current_cd_price,
                                  !.redeemed = <<p.cd>>],
                  lst |-> ListAppend(p.rest, CD(year, cd_maturity, s.cd_rate, current_cd_price)),
                  yield |-> TRUE]

Phase2KeepsYear(f, lst, s) ==
    IF lst = <<>>
    THEN [f |-> [f EXCEPT !.pc = "done"], lst |-> lst, yield |-> FALSE]
    ELSE LET p == Pop(lst)
         IN  [f |-> [f EXCEPT !.pc = "phase2",
                              !.income = future_value(p.cd, f.year),
                              !.redeemed = <<p.cd>>],
              lst |-> p.rest,
              yield |-> TRUE]

\* lines 125-130: one pass of the second loop, up to its yield or to the end
Phase2(f, lst, s) ==
    LET year == f.year + 1
    IN  IF lst = <<>>
        THEN [f |-> [f EXCEPT !.pc = "done", !.year = year], lst |-> lst, yield |-> FALSE]
        ELSE LET p == Pop(lst)
             IN  [f |-> [f EXCEPT !.pc = "phase2", !.year = year,
                                  !.income = future_value(p.cd, year),
                                  !.redeemed = <<p.cd>>],
                  lst |-> p.rest,
                  yield |-> TRUE]

LeavesPhase1Always(f) == f.pc = "phase1"

\* the first loop is left when `not balance` holds after its yield (line 120)
LeavesPhase1(f) == f.pc = "phase1" /\ Falsy(f.balance)

InPhase1WhileBalance(f) == f.pc \in {"year0", "phase1"} /\ ~Falsy(f.balance)

\* resuming f runs a pass of the first loop: `while True` is entered from the
\* year-0 yield whatever the balance, and repeated unless line 120 breaks
InPhase1(f) == f.pc = "year0" \/ (f.pc = "phase1" /\ ~LeavesPhase1(f))

\* resuming f runs a pass of the second loop
InPhase2(f) == f.pc \in {"year0", "phase1", "phase2"} /\ ~InPhase1(f)

\* next(g) on a frame whose list holds lst
Advance(f, lst, s) ==
    IF f.pc = "start" THEN Phase0(f, lst, s)
    ELSE IF InPhase1(f) THEN Phase1(f, lst, s)
    ELSE Phase2(f, lst, s)

\* ---- the state machine ----
Simulator(initial_balance, desired_income, desired_cd_maturity, cd_rate, investment_return, inflation_rate) ==
    [initial_balance |-> initial_balance, desired_income |-> desired_income,
     desired_cd_maturity |-> desired_cd_maturity, cd_rate |-> cd_rate,
     investment_return |-> investment_return, inflation_rate |-> inflation_rate]

NoProbe == [cd |-> <<>>, made |-> <<>>, calls |-> <<>>]

NoCaller == [mode |-> "none", max_years |-> 0, i |-> 0, finished |-> FALSE]

Init ==
    /\ sim \in {Simulator(b, d, m, c, v, n) :
                    b \in Balances, d \in Incomes, m \in Maturities,
                    c \in CdRates, v \in Returns, n \in Inflations}
    /\ heap = <<>>
    /\ gen = [r \in Runs |-> NoFrame]
    /\ caller = [r \in Runs |-> NoCaller]
    /\ out = [r \in Runs |-> <<>>]
    /\ seen = [r \in Runs |-> <<>>]
    /\ probe = NoProbe

RunContinuesInclusive(i, max_years) == i <= max_years

\* `for i in range(max_years)`: another pass of run's loop is due
RunContinues(i, max_years) == i < max_years

\* simulator.run(max_years), up to `g = self._run()`
CallRun(r) ==
    /\ caller[r].mode = "none"
    /\ \E n \in 0..MaxYears :
           caller' = [caller EXCEPT ![r] = [NoCaller EXCEPT !.mode = "run", !.max_years = n]]
    /\ gen' = [gen EXCEPT ![r] = NewFrame]
    /\ UNCHANGED <<sim, heap, out, seen, probe>>

\* iter(simulator)
CallIter(r) ==
    /\ caller[r].mode = "none"
    /\ caller' = [caller EXCEPT ![r] = [NoCaller EXCEPT !.mode = "iter"]]
    /\ gen' = [gen EXCEPT ![r] = NewFrame]
    /\ UNCHANGED <<sim, heap, out, seen, probe>>

\* the consumer of run r asks for the next record and the generator is resumed
Resumed(r) ==
    /\ ~caller[r].finished
    /\ \/ caller[r].mode = "iter"
       \/ caller[r].mode = "run" /\ RunContinues(caller[r].i, caller[r].max_years)

\* the effect of next(g) for run r, g's list being ref in heap h
Resume(r, f, h, ref) ==
    LET res == Advance([f EXCEPT !.cd_portfolio = ref], h[ref], sim)
    IN  /\ gen' = [gen EXCEPT ![r] = res.f]
        /\ heap' = [h EXCEPT ![ref] = res.lst]
        /\ caller' = [caller EXCEPT ![r].i = @ + 1, ![r].finished = ~res.yield]
        /\ out' = IF res.yield
                  THEN [out EXCEPT ![r] = Append(@, Record(res.f.year, res.f.income,
                                                           ref, res.f.balance))]
                  ELSE out
        /\ seen' = IF res.yield
                   THEN [seen EXCEPT ![r] = Append(@, [phase |-> res.f.pc,
                                                       contents |-> res.lst,
                                                       redeemed |-> res.f.redeemed])]
                   ELSE seen
        /\ UNCHANGED <<sim, probe>>

\* first next(g): lines 66-93
NextYear0(r) ==
    /\ Resumed(r)
    /\ gen[r].pc = "start"
    /\ LET h == NewList(heap) IN Resume(r, gen[r], h, Len(h))

\* lines 101-105, 110-119: a CD is redeemed and a replacement bought
NextRollover(r) ==
    /\ Resumed(r)
    /\ InPhase1(gen[r])
    /\ caller[r].mode = "iter" => gen[r].year < YearCap
    /\ heap[gen[r].cd_portfolio] # <<>>
    /\ Resume(r, gen[r], heap, gen[r].cd_portfolio)

\* lines 101-108, 119: the portfolio is empty (IndexError)
NextDrawdown(r) ==
    /\ Resumed(r)
    /\ InPhase1(gen[r])
    /\ caller[r].mode = "iter" => gen[r].year < YearCap
    /\ heap[gen[r].cd_portfolio] = <<>>
    /\ Resume(r, gen[r], heap, gen[r].cd_portfolio)

\* lines 125-130: a remaining CD is redeemed
NextDrain(r) ==
    /\ Resumed(r)
    /\ InPhase2(gen[r])
    /\ heap[gen[r].cd_portfolio] # <<>>
    /\ Resume(r, gen[r], heap, gen[r].cd_portfolio)

\* lines 125-129: nothing is left, the generator returns (StopIteration)
NextStop(r) ==
    /\ Resumed(r)
    /\ InPhase2(gen[r])
    /\ heap[gen[r].cd_portfolio] = <<>>
    /\ Resume(r, gen[r], heap, gen[r].cd_portfolio)

\* line 135: range(max_years) is used up, run returns
RunLimit(r) ==
    /\ caller[r].mode = "run"
    /\ ~caller[r].finished
    /\ ~RunContinues(caller[r].i, caller[r].max_years)
    /\ caller' = [caller EXCEPT ![r].finished = TRUE]
    /\ UNCHANGED <<sim, heap, gen, out, seen, probe>>

Next ==
    \E r \in Runs :
        \/ CallRun(r)
        \/ CallIter(r)
        \/ NextYear0(r)
        \/ NextRollover(r)
        \/ NextDrawdown(r)
        \/ NextDrain(r)
        \/ NextStop(r)
        \/ RunLimit(r)

Spec == Init /\ [][Next]_vars

\* one consumer, which keeps asking for records once it has called
SingleNext ==
    \/ CallRun(1)
    \/ CallIter(1)
    \/ NextYear0(1)
    \/ NextRollover(1)
    \/ NextDrawdown(1)
    \/ NextDrain(1)
    \/ NextStop(1)
    \/ RunLimit(1)

FairSpec ==
    /\ Init
    /\ [][SingleNext]_vars
    /\ WF_vars(NextYear0(1) \/ NextRollover(1) \/ NextDrawdown(1)
                \/ NextDrain(1) \/ NextStop(1) \/ RunLimit(1))

\* ---- main() with the options' defaults ----
\* lines 163-168, amounts in thousands: 1,000,000 is 1000 * Unit and 100,000 is
\* 100 * Unit; 0.01, 0.05 and 0.025 are RateUnit / 100, / 20 and / 40
DefaultSimulator ==
    Simulator(1000 * Unit, 100 * Unit, 5, RateUnit \div 100, RateUnit \div 20, RateUnit \div 40)

DefaultInit ==
    /\ sim = DefaultSimulator
    /\ heap = <<>>
    /\ gen = [r \in Runs |-> NoFrame]
    /\ caller = [r \in Runs |-> NoCaller]
    /\ out = [r \in Runs |-> <<>>]
    /\ seen = [r \in Runs |-> <<>>]
    /\ probe = NoProbe

\* simulator.dump(options['max_years']) calls self.run(max_years), lines 158, 182
CallDump(r) ==
    /\ caller[r].mode = "none"
    /\ caller' = [caller EXCEPT ![r] = [NoCaller EXCEPT !.mode = "run",
                                                        !.max_years = DefaultMaxYears]]
    /\ gen' = [gen EXCEPT ![r] = NewFrame]
    /\ UNCHANGED <<sim, heap, out, seen, probe>>

\* dump's writer.writerows keeps asking run for records
DumpNext(r) == NextYear0(r) \/ NextRollover(r) \/ NextDrain(r) \/ NextStop(r)

DefaultNext == \E r \in Runs : CallDump(r) \/ DumpNext(r)

DefaultSpec ==
    /\ DefaultInit
    /\ [][DefaultNext]_vars
    /\ \A r \in Runs : WF_vars(DumpNext(r))

\* ---- a CD used on its own ----
CdYears == 0..MaxMaturity

CdMaturities == 1..MaxMaturity

CdPrices == {0, 150 * Unit, 400 * Unit}

\* how many future_value calls are made on the CD
MaxCalls == 2

CdInit ==
    /\ sim = Simulator(0, 0, 0, 0, 0, 0)
    /\ heap = <<>>
    /\ gen = [r \in Runs |-> NoFrame]
    /\ caller = [r \in Runs |-> NoCaller]
    /\ out = [r \in Runs |-> <<>>]
    /\ seen = [r \in Runs |-> <<>>]
    /\ probe = NoProbe

\* CD(year, maturity, rate, price)
MakeCD ==
    /\ probe.cd = <<>>
    /\ \E y \in CdYears, m \in CdMaturities, c \in CdRates \cup Returns, p \in CdPrices :
           probe' = [cd |-> <<CD(y, m, c, p)>>, made |-> <<CD(y, m, c, p)>>, calls |-> <<>>]
    /\ UNCHANGED <<sim, heap, gen, caller, out, seen>>

\* the call cd.future_value(*arg): self is only read
FutureValueCalled(arg) ==
    /\ probe.cd # <<>>
    /\ Len(probe.calls) < MaxCalls
    /\ probe' = [probe EXCEPT !.calls = Append(@, [arg |-> arg,
                                                   value |-> future_value_call(probe.cd[1], arg)])]
    /\ UNCHANGED <<sim, heap, gen, caller, out, seen>>

\* cd.future_value(future_year), future_year from the purchase year on
CallFutureValue ==
    /\ probe.cd # <<>>
    /\ \E k \in 0..(probe.cd[1].maturity + 2) : FutureValueCalled(<<probe.cd[1].year + k>>)

\* cd.future_value()
CallFutureValueDefault == FutureValueCalled(<<>>)

CdNext == MakeCD \/ CallFutureValue \/ CallFutureValueDefault

CdSpec == CdInit /\ [][CdNext]_vars

\* ---- what a consumer observes ----
Observation(year, income, contents, balance) ==
    [year |-> year, income |-> income, contents |-> contents, balance |-> balance]

\* record i of run r as its consumer reads it on receipt
Observed(r) ==
    [i \in 1..Len(out[r]) |->
        Observation(out[r][i].year, out[r][i].income, seen[r][i].contents, out[r][i].balance)]

\* the first n records of self._run() consumed on its own, with its own list
RECURSIVE Underlying(_, _, _, _)
Underlying(n, f, lst, acc) ==
    IF n = 0 \/ f.pc = "done" THEN acc
    ELSE LET res == Advance(f, lst, sim)
         IN  Underlying(n - 1, res.f, res.lst,
                        IF res.yield
                        THEN Append(acc, Observation(res.f.year, res.f.income,
                                                     res.lst, res.f.balance))
                        ELSE acc)

UnderlyingSeq(n) == Underlying(n, NewFrame, <<>>, <<>>)

Started == {r \in Runs : caller[r].mode # "none"}

MaturityYear(cd) == cd.year + cd.maturity

\* ---- claims ----

\* C1: the balance of every emitted record is >= 0, in every phase.
C1_BalanceNonNegative ==
    \A r \in Runs : \A i \in 1..Len(out[r]) : out[r][i].balance >= 0

\* C1 witness: a Phase 1 purchase was capped at the balance, which it brought
\* from a positive value to 0.
C1_Witness ==
    \E r \in Runs : \E i \in 2..Len(out[r]) :
        /\ seen[r][i].phase = "phase1"
        /\ out[r][i - 1].balance > 0
        /\ out[r][i].balance = 0
        /\ seen[r][i].contents # <<>>
        /\ seen[r][i].contents[Len(seen[r][i].contents)].price > 0

\* C2: run(max_years) yields the records of the underlying sequence in order,
\* never more than max_years of them; once it has returned it has yielded
\* exactly the first min(max_years, L) of them; it calls next(g) at most
\* max_years times.
C2_RunYieldsPrefix ==
    \A r \in Runs :
        caller[r].mode = "run" =>
            /\ Len(out[r]) <= caller[r].max_years
            /\ caller[r].i <= caller[r].max_years
            /\ Observed(r) = UnderlyingSeq(Len(out[r]))
            /\ caller[r].finished => Observed(r) = UnderlyingSeq(caller[r].max_years)

\* C2 witness: one run was cut at max_years with the generator still live, and
\* another returned because the generator ended first.
C2_Witness ==
    \E r, q \in Runs :
        /\ caller[r].mode = "run" /\ caller[r].finished
        /\ gen[r].pc = "phase1" /\ Len(out[r]) = caller[r].max_years
        /\ caller[q].mode = "run" /\ caller[q].finished
        /\ gen[q].pc = "done" /\ Len(out[q]) < caller[q].max_years

\* C3: the portfolio of an emitted record keeps the contents it had when the
\* record was emitted.
C3_RecordIsSnapshot ==
    \A r \in Runs : \A i \in 1..Len(out[r]) :
        heap[out[r][i].cd_portfolio] = seen[r][i].contents

\* C4: every portfolio is sorted by year + maturity, and a redeemed CD matures
\* no later than any CD the portfolio holds after its redemption.
C4_FifoIsMaturityOrder ==
    /\ \A ref \in 1..Len(heap) : \A i, j \in 1..Len(heap[ref]) :
           i < j => MaturityYear(heap[ref][i]) <= MaturityYear(heap[ref][j])
    /\ \A r \in Runs : \A i \in 1..Len(seen[r]) :
           seen[r][i].redeemed # <<>> =>
               \A k \in 1..Len(seen[r][i].contents) :
                   MaturityYear(seen[r][i].redeemed[1])
                       <= MaturityYear(seen[r][i].contents[k])

\* C4 witness: a CD was redeemed in Phase 1 and another in Phase 2 while the
\* portfolio still held a CD.
C4_Witness ==
    \E r \in Runs : \E i, j \in 1..Len(seen[r]) :
        /\ seen[r][i].phase = "phase1" /\ seen[r][i].redeemed # <<>>
        /\ seen[r][j].phase = "phase2" /\ seen[r][j].contents # <<>>

ZeroBalanceScenario ==
    /\ sim.initial_balance = 0
    /\ sim.desired_income = 100 * Unit
    /\ sim.desired_cd_maturity >= 1

\* C5 as stated: with initial_balance = 0 and desired_income = 100 the year-0
\* income is 0, the year-0 portfolio is empty and the first Phase 1 iteration
\* takes the empty-portfolio branch.
C5_ZeroBalanceBuysNothing ==
    ZeroBalanceScenario =>
        \A r \in Runs :
            /\ Len(out[r]) >= 1 => out[r][1].income = 0 /\ seen[r][1].contents = <<>>
            /\ Len(out[r]) >= 2 => seen[r][2].redeemed = <<>>

\* C5 amended: with initial_balance = 0 and desired_income = 100 the year-0
\* income is 0, Phase 0 still buys the maturity-1 rung, at price 0, before it
\* tests the balance, so the year-0 portfolio holds exactly that CD, and the
\* first Phase 1 iteration redeems it (income 0) instead of taking the
\* empty-portfolio branch.
C5_ZeroBalanceBuysOneRung ==
    ZeroBalanceScenario =>
        \A r \in Runs :
            /\ Len(out[r]) >= 1 =>
                   /\ out[r][1].income = 0
                   /\ seen[r][1].contents = <<CD(0, 1, RungRate(1, sim.cd_rate), 0)>>
            /\ Len(out[r]) >= 2 =>
                   /\ seen[r][2].redeemed = seen[r][1].contents
                   /\ out[r][2].income = 0

\* C5 witness: the scenario's run has gone through its first Phase 1 iteration.
C5_Witness ==
    /\ ZeroBalanceScenario
    /\ \E r \in Runs : Len(out[r]) >= 2 /\ seen[r][2].phase = "phase1"

Phase1Records(r) == {i \in 1..Len(seen[r]) : seen[r][i].phase = "phase1"}

\* C6: with initial_balance = 0 every record has income 0 and balance 0, Phase 1
\* has one iteration only, the sequence has at most three records, and a
\* consumer that keeps asking reaches its end.
C6_ZeroBalanceTerminates ==
    /\ [](sim.initial_balance = 0 =>
              \A r \in Runs :
                  /\ \A i \in 1..Len(out[r]) :
                         out[r][i].income = 0 /\ out[r][i].balance = 0
                  /\ Cardinality(Phase1Records(r)) <= 1
                  /\ Len(out[r]) <= 3)
    /\ \A r \in Runs :
           (sim.initial_balance = 0 /\ caller[r].mode = "iter") ~> (gen[r].pc = "done")

\* C6 witness: a run from initial_balance = 0 with a positive desired income
\* has ended after its three records.
C6_Witness ==
    /\ sim.initial_balance = 0
    /\ sim.desired_income > 0
    /\ \E r \in Runs : gen[r].pc = "done" /\ Len(out[r]) = 3

ZeroPhase1Records(r) == {i \in Phase1Records(r) : out[r][i].balance = 0}

\* C7: the sequence ends only after a Phase 1 iteration that ended with balance
\* 0; while no Phase 1 iteration has ended with balance 0 the generator stays
\* in Phase 1; after one has, at most as many records follow as the portfolio
\* held, and a consumer that keeps asking reaches the end.
C7_FiniteIffPhase1ReachesZero ==
    /\ [](\A r \in Runs :
              /\ gen[r].pc \in {"phase2", "done"} => ZeroPhase1Records(r) # {}
              /\ \A i \in ZeroPhase1Records(r) :
                     Len(out[r]) - i <= Len(seen[r][i].contents))
    /\ [][\A r \in Runs :
              (gen[r].pc = "phase1" /\ gen[r].balance # 0 /\ gen'[r] # gen[r])
                  => gen'[r].pc = "phase1"]_vars
    /\ \A r \in Runs :
           (caller[r].mode = "iter" /\ ZeroPhase1Records(r) # {}) ~> (gen[r].pc = "done")

\* C7 witness: a sequence iterated directly has ended, after several Phase 1
\* years and two records past the Phase 1 record with balance 0.
C7_Witness ==
    \E r \in Runs :
        /\ caller[r].mode = "iter"
        /\ gen[r].pc = "done"
        /\ Cardinality(Phase1Records(r)) >= 2
        /\ Len(out[r]) - Max(ZeroPhase1Records(r)) >= 2

\* C8: the first record is the Phase 0 record (year 0), the second is a Phase 1
\* record whatever the year-0 balance, a Phase 1 record is followed by a Phase 1
\* record if its balance is not 0 and by a Phase 2 record (or the end) if it
\* is, Phase 2 records are followed by Phase 2 records only and have balance 0.
C8_PhasesInOrder ==
    \A r \in Runs :
        /\ Len(out[r]) >= 1 => seen[r][1].phase = "year0" /\ out[r][1].year = 0
        /\ Len(out[r]) >= 2 => seen[r][2].phase = "phase1"
        /\ \A i \in 2..Len(out[r]) :
               /\ seen[r][i].phase \in {"phase1", "phase2"}
               /\ seen[r][i].phase = "phase2" => out[r][i].balance = 0
               /\ i < Len(out[r]) =>
                      seen[r][i + 1].phase =
                          IF seen[r][i].phase = "phase1" /\ out[r][i].balance # 0
                          THEN "phase1" ELSE "phase2"
        /\ gen[r].pc = "done" =>
               /\ Phase1Records(r) # {}
               /\ \A i \in Phase1Records(r) :
                      out[r][i].balance = 0 <=> (i + 1) \notin Phase1Records(r)

\* C8 witness: a run has ended after the year-0 record, several Phase 1
\* records and several Phase 2 records.
C8_Witness ==
    \E r \in Runs :
        /\ gen[r].pc = "done"
        /\ Cardinality(Phase1Records(r)) >= 2
        /\ Len(out[r]) - Cardinality(Phase1Records(r)) >= 3

RECURSIVE SumPrices(_)
SumPrices(lst) == IF lst = <<>> THEN 0 ELSE Head(lst).price + SumPrices(Tail(lst))

\* the portfolios of run r's records as they read now
Live(r) == [i \in 1..Len(out[r]) |-> heap[out[r][i].cd_portfolio]]

\* C9: two run() calls with the same max_years that have both returned have
\* yielded the same records (year, income, balance, portfolio contents) at each
\* position, and each began at year 0 with the whole initial_balance.
C9_RunsAgree ==
    \A r, q \in Runs :
        ( /\ caller[r].mode = "run" /\ caller[r].finished
          /\ caller[q].mode = "run" /\ caller[q].finished
          /\ caller[r].max_years = caller[q].max_years ) =>
            /\ Observed(r) = Observed(q)
            /\ Live(r) = Live(q)
            /\ Len(out[r]) >= 1 =>
                   /\ out[r][1].year = 0
                   /\ out[r][1].income + out[r][1].balance + SumPrices(seen[r][1].contents)
                          = sim.initial_balance

\* C9 witness: two run() calls with the same max_years >= 3 have both returned
\* with at least three records.
C9_Witness ==
    /\ \A r \in Runs : caller[r].mode = "run" /\ caller[r].finished /\ Len(out[r]) >= 3
    /\ caller[1].max_years = caller[2].max_years

\* C10: whatever the interleaving, each run has yielded what self._run() yields
\* when consumed on its own, and no two runs hold the same list.
C10_RunsDoNotInterfere ==
    /\ \A r \in Started :
           /\ Observed(r) = UnderlyingSeq(Len(out[r]))
           /\ gen[r].pc # "start" =>
                  heap[gen[r].cd_portfolio]
                      = IF out[r] = <<>> THEN <<>> ELSE seen[r][Len(out[r])].contents
    /\ \A r, q \in Started :
           (r # q /\ gen[r].pc # "start" /\ gen[q].pc # "start")
               => gen[r].cd_portfolio # gen[q].cd_portfolio

\* C10 witness: both runs are in the middle of Phase 1 at different years, so
\* their steps alternated.
C10_Witness ==
    /\ \A r \in Runs : gen[r].pc = "phase1" /\ ~caller[r].finished /\ Len(out[r]) >= 2
    /\ Len(out[1]) > Len(out[2])
    /\ gen[2].balance > 0

\* C11: the year-0 income is min(initial_balance, desired_income), the prices of
\* the Phase 0 rungs sum to at most initial_balance minus that income, and the
\* year-0 balance is initial_balance minus the income minus the sum of prices.
C11_LadderWithinBalance ==
    \A r \in Runs :
        Len(out[r]) >= 1 =>
            /\ out[r][1].income = Min(sim.initial_balance, sim.desired_income)
            /\ SumPrices(seen[r][1].contents) <= sim.initial_balance - out[r][1].income
            /\ out[r][1].balance
                   = sim.initial_balance - out[r][1].income - SumPrices(seen[r][1].contents)

\* C11 witness: a year-0 record whose rungs took all that was left after a
\* positive income.
C11_Witness ==
    \E r \in Runs :
        /\ Len(out[r]) >= 1
        /\ out[r][1].income > 0
        /\ out[r][1].balance = 0
        /\ SumPrices(seen[r][1].contents) > 0

\* price * (1 + rate) ^ k
Compounded(cd, k) == Mul(cd.price, Pow(RateUnit + cd.rate, k))

\* C12: future_value(year + k) is price * (1 + rate)^k for 0 <= k <= maturity and
\* the value at k = maturity for k > maturity; future_value() is the value at
\* k = maturity; the CD is as it was made.
C12_FutureValueCompoundsToMaturity ==
    /\ probe.cd = probe.made
    /\ \A i \in 1..Len(probe.calls) :
           LET cd == probe.made[1]
               call == probe.calls[i]
           IN  /\ call.arg = <<>> => call.value = Compounded(cd, cd.maturity)
               /\ call.arg # <<>> =>
                      LET k == call.arg[1] - cd.year
                      IN  /\ k <= cd.maturity => call.value = Compounded(cd, k)
                          /\ k > cd.maturity => call.value = Compounded(cd, cd.maturity)

\* C12 witness: on a CD with a positive price and rate, a call past maturity
\* and a call without argument have been made.
C12_Witness ==
    /\ Len(probe.calls) = 2
    /\ probe.made[1].price > 0
    /\ probe.made[1].rate > 0
    /\ probe.calls[1].arg # <<>>
    /\ probe.calls[1].arg[1] > probe.made[1].year + probe.made[1].maturity
    /\ probe.calls[2].arg = <<>>
    /\ probe.calls[1].value > probe.made[1].price

\* C13: with the defaults of main()'s options the year-0 income is 100,000, the
\* year-0 portfolio holds 5 rungs of maturities 1..5 with rates 0.002, 0.004,
\* 0.006, 0.008, 0.01, a Phase 1 record with balance 0 is reached, and then the
\* remaining CDs are drained and the sequence ends, within max_years.
C13_DefaultScenario ==
    /\ [](\A r \in Runs :
              /\ caller[r].i <= DefaultMaxYears
              /\ Len(out[r]) >= 1 =>
                     /\ out[r][1].income = 100 * Unit
                     /\ Len(seen[r][1].contents) = 5
                     /\ \A k \in 1..5 :
                            /\ seen[r][1].contents[k].maturity = k
                            /\ seen[r][1].contents[k].rate = (k * RateUnit) \div 500
                            /\ seen[r][1].contents[k].price > 0
                     /\ \A k \in 1..4 :
                            seen[r][1].contents[k].rate < seen[r][1].contents[k + 1].rate)
    /\ \A r \in Runs :
           (caller[r].mode = "run") ~> (ZeroPhase1Records(r) # {})
    /\ \A r \in Runs :
           (ZeroPhase1Records(r) # {})
               ~> ( /\ gen[r].pc = "done"
                    /\ caller[r].finished
                    /\ heap[gen[r].cd_portfolio] = <<>>
                    /\ seen[r][Len(seen[r])].phase = "phase2" )

\* C13 witness: the default run has ended, after a Phase 1 record with balance
\* 0 that left 5 CDs, which Phase 2 drained in 5 more records.
C13_Witness ==
    /\ sim = DefaultSimulator
    /\ \E r \in Runs :
           /\ gen[r].pc = "done"
           /\ ZeroPhase1Records(r) # {}
           /\ Len(out[r]) = Max(ZeroPhase1Records(r)) + 5

\* the records of run r that redeemed a CD
Redemptions(r) == {i \in 1..Len(seen[r]) : seen[r][i].redeemed # <<>>}

\* Phase 0 of run r stopped before desired_cd_maturity rungs
LadderCutShort(r) == Len(seen[r][1].contents) < sim.desired_cd_maturity

\* C14 as stated: every CD redeemed in Phase 1 or Phase 2 is redeemed in exactly
\* the year cd.year + cd.maturity, in all runs.
C14_RedeemedAtMaturity ==
    \A r \in Runs : \A i \in Redemptions(r) :
        out[r][i].year = MaturityYear(seen[r][i].redeemed[1])

\* C14 amended: every CD is redeemed no later than cd.year + cd.maturity, and in
\* exactly that year unless the Phase 0 ladder was cut short; then the
\* replacement CD bought in year 1, whose price is 0, is redeemed in Phase 2
\* before its maturity, with income 0.
C14_RedeemedAtMaturityUnlessCutShort ==
    \A r \in Runs : \A i \in Redemptions(r) :
        LET cd == seen[r][i].redeemed[1]
        IN  \/ out[r][i].year = MaturityYear(cd)
            \/ /\ out[r][i].year < MaturityYear(cd)
               /\ LadderCutShort(r)
               /\ seen[r][i].phase = "phase2"
               /\ cd.year = 1
               /\ cd.price = 0
               /\ out[r][i].income = 0

\* C14 witness: after a ladder cut short below a positive income, Phase 2 has
\* redeemed the year-1 replacement before its maturity, and before that a rung
\* at its maturity.
C14_Witness ==
    \E r \in Runs : \E i, j \in Redemptions(r) :
        /\ out[r][1].income > 0
        /\ out[r][i].year < MaturityYear(seen[r][i].redeemed[1])
        /\ out[r][j].year = MaturityYear(seen[r][j].redeemed[1])
        /\ seen[r][j].redeemed[1].price > 0

\* the records of run r that follow its last Phase 1 record z
DrainRecords(r, z) == (z + 1)..Len(out[r])

\* C15: after Phase 1 has ended with m CDs, Phase 2 emits one record per
\* consecutive year, the j-th redeeming the j-th of those CDs for its
\* future_value in that year, with the portfolio that follows it and balance
\* 0; at most m records, and exactly m when the sequence has ended, which it
\* does on the empty portfolio without a record.
C15_DrainEmitsOnePerCD ==
    \A r \in Runs : \A z \in ZeroPhase1Records(r) :
        LET left == seen[r][z].contents
            m == Len(left)
        IN  /\ Len(out[r]) - z <= m
            /\ \A i \in DrainRecords(r, z) :
                   LET j == i - z
                   IN  /\ seen[r][i].phase = "phase2"
                       /\ out[r][i].year = out[r][z].year + j
                       /\ seen[r][i].redeemed = <<left[j]>>
                       /\ out[r][i].income = future_value(left[j], out[r][i].year)
                       /\ seen[r][i].contents = SubSeq(left, j + 1, m)
                       /\ out[r][i].balance = 0
            /\ gen[r].pc = "done" =>
                   /\ Len(out[r]) - z = m
                   /\ heap[gen[r].cd_portfolio] = <<>>
                   /\ gen[r].year = out[r][z].year + m + 1

\* C15 witness: a sequence has ended after Phase 2 drained two CDs of positive
\* value.
C15_Witness ==
    \E r \in Runs : \E z \in ZeroPhase1Records(r) :
        /\ gen[r].pc = "done"
        /\ Len(out[r]) - z >= 2
        /\ \A i \in DrainRecords(r, z) : out[r][i].income > 0

\* the Phase 1 records of run r made by the branch that redeems a CD
Rollovers(r) == {i \in Phase1Records(r) : seen[r][i].redeemed # <<>>}

\* C16: a Phase 1 iteration on a non-empty portfolio multiplies the balance by
\* 1 + investment_return, redeems the front CD as income, which is not added
\* to the balance, and buys one CD of this year, of maturity
\* desired_cd_maturity and rate cd_rate, at min(balance, target price), which
\* it deducts from the balance, and appends it at the back.
C16_RolloverStep ==
    \A r \in Runs : \A i \in Rollovers(r) :
        LET before == seen[r][i - 1].contents
            after == seen[r][i].contents
            year == out[r][i].year
            grown == Mul(out[r][i - 1].balance, RateUnit + sim.investment_return)
            bought == after[Len(after)]
            target == TargetPrice(sim.desired_income, sim.inflation_rate,
                                  year + sim.desired_cd_maturity,
                                  RungRate(sim.desired_cd_maturity, sim.cd_rate),
                                  sim.desired_cd_maturity)
        IN  /\ before # <<>>
            /\ seen[r][i].redeemed = <<before[1]>>
            /\ out[r][i].income = future_value(before[1], year)
            /\ after = Tail(before) \o <<bought>>
            /\ bought = CD(year, sim.desired_cd_maturity, sim.cd_rate, Min(grown, target))
            /\ out[r][i].balance = grown - bought.price

\* C16 witness: a rollover that grew the balance, paid a positive income and
\* bought a CD at the full target price with balance to spare, in a portfolio
\* of two.
C16_Witness ==
    \E r \in Runs : \E i \in Rollovers(r) :
        /\ sim.investment_return > 0
        /\ out[r][i].income > 0
        /\ out[r][i].balance > 0
        /\ Len(seen[r][i].contents) = 2
        /\ seen[r][i].contents[2].price > 0

\* the balance left in year 0 of run r after its first j rungs
BalanceAfterRungs(r, j) ==
    sim.initial_balance - out[r][1].income - SumPrices(SubSeq(seen[r][1].contents, 1, j))

C18_PortfolioSize ==
    sim.desired_cd_maturity >= 1 =>
        \A r \in Runs :
            /\ Len(out[r]) >= 1 =>
                   /\ Len(seen[r][1].contents) >= 1
                   /\ Len(seen[r][1].contents) <= sim.desired_cd_maturity
            /\ \A i \in Phase1Records(r) :
                   /\ seen[r][i].redeemed # <<>>
                   /\ Len(seen[r][i].contents) = Len(seen[r][1].contents)
            /\ \A i \in 1..Len(seen[r]) :
                   Len(seen[r][i].contents) <= sim.desired_cd_maturity

\* C18 witness: a run with a full ladder of two and two Phase 1 records, now in
\* Phase 2.
C18_Witness ==
    \E r \in Runs :
        /\ sim.desired_cd_maturity = 2
        /\ Cardinality(Phase1Records(r)) >= 2
        /\ Len(seen[r][1].contents) = 2
        /\ gen[r].pc = "phase2"

\* C19: the i-th record of a run, counting from 0, has year i.
C19_YearsConsecutive ==
    \A r \in Runs : \A i \in 1..Len(out[r]) : out[r][i].year = i - 1

\* C19 witness: a sequence has ended with records from all three phases, two
\* or more of Phase 1 and of Phase 2.
C19_Witness ==
    \E r \in Runs : \E z \in ZeroPhase1Records(r) :
        /\ gen[r].pc = "done"
        /\ z >= 3
        /\ Len(out[r]) >= z + 2

\* C20: no step changes the Simulator's attributes, and a step leaves each list
\* as it was, or without its front CD, or without its front CD and with one
\* new CD at the back, the CDs that stay being unchanged.
C20_ConfigurationAndCDsUnchanged ==
    [][ /\ sim' = sim
        /\ Len(heap') >= Len(heap)
        /\ \A ref \in 1..Len(heap) :
               \/ heap'[ref] = heap[ref]
               \/ /\ heap[ref] # <<>>
                  /\ \/ heap'[ref] = Tail(heap[ref])
                     \/ /\ Len(heap'[ref]) = Len(heap[ref])
                        /\ SubSeq(heap'[ref], 1, Len(heap[ref]) - 1) = Tail(heap[ref]) ]_vars

\* C20 witness: a list of two or more CDs has gone through a Phase 1 pop and
\* append and a Phase 2 pop.
C20_Witness ==
    \E r \in Runs : \E i, j \in Redemptions(r) :
        /\ seen[r][i].phase = "phase1"
        /\ seen[r][j].phase = "phase2"
        /\ Len(seen[r][1].contents) >= 2
        /\ seen[r][j].redeemed[1].year > 0

====
